---- MODULE Spec2Model ----
(***************************************************************************)
(* Doctor-appointment booking: the appointments table with its uniqueness  *)
(* constraint and row-level policies, the patient booking form with its    *)
(* slot generator, the patient appointment list and the doctor dashboard.  *)
(*                                                                         *)
(* Times of day are counted in seconds since midnight, instants in seconds *)
(* since midnight of day 0.  A 'HH:mm' string is the tuple <<h, m>>, a     *)
(* 'HH:mm:ss' string (the form of a time column) is <<h, m, s>>, and a     *)
(* 'yyyy-MM-dd' string is the day number.                                  *)
(***************************************************************************)
EXTENDS Integers, Sequences, FiniteSets, TLC

VARIABLES
    appointments,       \* the appointments table: a sequence of rows, id = position
    doctor_schedules,   \* the doctor_schedules table: a set of rows
    now,                \* the wall clock, new Date()
    book,               \* BookAppointment component state, one per patient session
    plist,              \* PatientAppointments component state, one per patient session
    dash,               \* DoctorDashboard component state, one per doctor session
    lastUpdate,         \* observer: the last status update asked for, with the status
                        \* the screen displayed (shown) and whether it was sent
    profilesTable,      \* the profiles table: a set of rows
    doctorsTable,       \* the doctors table: a set of rows
    dlist,              \* DoctorsList component state, one per patient session
    route,              \* the route each browser session is on, with its auth context
    login               \* the sign-in / sign-up form of a signed-out browser session

vars == <<appointments, doctor_schedules, now, book, plist, dash, lastUpdate,
          profilesTable, doctorsTable, dlist, route, login>>

---------------------------------------------------------------------------
(* Bounds of the model *)

\* rows the appointments table may hold
MaxAppointments == 2
\* date buttons offered by the form: today .. today + MaxAhead (the code offers 14)
MaxAhead == 1
\* generateTimeSlots calls one form may have in flight
MaxInFlight == 1
\* rows the doctor_schedules table may hold when the slot generator is studied
MaxEntries == 2

---------------------------------------------------------------------------
(* Seed data: profiles and doctors are never written by the screens *)

Patients == {"p1", "p2"}
DoctorUsers == {"u1", "u2"}
Admins == {"a1"}
Users == Patients \cup DoctorUsers \cup Admins

profiles ==
    [id : Patients, role : {"patient"}] \cup
    [id : DoctorUsers, role : {"doctor"}] \cup
    [id : Admins, role : {"admin"}]

doctors ==
    { [id |-> "d1", user_id |-> "u1", is_verified |-> TRUE, is_available |-> TRUE],
      [id |-> "d2", user_id |-> "u2", is_verified |-> TRUE, is_available |-> TRUE] }

DoctorIds == {d.id : d \in doctors}

Statuses == {"pending", "confirmed", "cancelled", "completed"}

NoDoctor == "none"
NoTime == <<>>
NoRequest == [doctor_id |-> NoDoctor]

---------------------------------------------------------------------------
(* Dates and times: date-fns and the column formats *)

SecondsPerHour == 60 * 60
SecondsPerDay == 24 * SecondsPerHour

\* the length of one slot, in minutes
SlotMinutes == 30

\* parseISO(`2000-01-01T${t}`) for a time column value t, as seconds since that midnight
ParseTime(t) == t[1] * SecondsPerHour + t[2] * 60 + t[3]

\* format(d, 'HH:mm') of the instant sec seconds after a midnight
FormatHHmm(sec) == << (sec \div SecondsPerHour) % 24, (sec \div 60) % 60 >>

\* timeStr + ':00'
WithSeconds(hm) == hm \o <<0>>

\* format(d, 'yyyy-MM-dd')
FormatDate(inst) == inst \div SecondsPerDay

\* parseISO(`${dateStr}T${timeStr}`)
ParseDateTime(dateStr, hm) ==
    dateStr * SecondsPerDay + hm[1] * SecondsPerHour + hm[2] * 60

\* Date.getDay(); day 0 is a Sunday
GetDay(inst) == FormatDate(inst) % 7

IsSameDay(a, b) == FormatDate(a) = FormatDate(b)

AddDays(inst, i) == inst + i * SecondsPerDay

---------------------------------------------------------------------------
(* Row-level policies and constraints of the schema *)

IsAdmin(uid) == \E p \in profiles : p.id = uid /\ p.role = "admin"

OwnsDoctor(uid, doctor_id) == \E d \in doctors : d.id = doctor_id /\ d.user_id = uid

\* "Anyone can read doctor schedules" / "Doctors can manage own schedules"
SchedulesSelectPolicy(uid, row) ==
    \/ \E d \in doctors : d.id = row.doctor_id /\ d.is_verified
    \/ OwnsDoctor(uid, row.doctor_id)

\* a read policy that asks only whether the caller is a doctor, not whose row it is
MutSelectAnyDoctor(uid, row) ==
    \/ row.patient_id = uid
    \/ \E d \in doctors : d.user_id = uid
    \/ IsAdmin(uid)

\* "Patients can read own appointments" / "Doctors can read their appointments" /
\* "Admins can manage all appointments"
AppointmentsSelectPolicy(uid, row) ==
    \/ row.patient_id = uid
    \/ OwnsDoctor(uid, row.doctor_id)
    \/ IsAdmin(uid)

\* "Patients can create appointments" / "Admins can manage all appointments"
AppointmentsInsertPolicy(uid, row) ==
    \/ row.patient_id = uid
    \/ IsAdmin(uid)

\* an update policy that asks only whether the caller is a doctor, not whose row it is
MutUpdateAnyDoctor(uid, row) ==
    \/ row.patient_id = uid
    \/ \E d \in doctors : d.user_id = uid
    \/ IsAdmin(uid)

\* "Patients can update own appointments" / "Doctors can update their appointments" /
\* "Admins can manage all appointments"
AppointmentsUpdatePolicy(uid, row) ==
    \/ row.patient_id = uid
    \/ OwnsDoctor(uid, row.doctor_id)
    \/ IsAdmin(uid)

\* UNIQUE(doctor_id, appointment_date, appointment_time)
SameSlot(a, b) ==
    /\ a.doctor_id = b.doctor_id
    /\ a.appointment_date = b.appointment_date
    /\ a.appointment_time = b.appointment_time

\* a uniqueness check that counts only the rows still pending or confirmed
MutUniqueActiveOnly(table, row) ==
    \E i \in 1..Len(table) :
        SameSlot(table[i], row) /\ table[i].status \in {"pending", "confirmed"}

UniqueViolation(table, row) == \E i \in 1..Len(table) : SameSlot(table[i], row)

\* the rows of a table a query by uid returns, in table order
RECURSIVE SelectRows(_, _, _)
SelectRows(table, uid, n) ==
    IF n = 0 THEN <<>>
    ELSE LET rest == SelectRows(table, uid, n - 1)
         IN  IF AppointmentsSelectPolicy(uid, table[n]) THEN Append(rest, table[n]) ELSE rest

SelectAppointments(table, uid) == SelectRows(table, uid, Len(table))

\* "Anyone can read verified doctors" / "Doctors can manage own profile" /
\* "Admins can manage all doctors"
DoctorsSelectPolicy(uid, row) ==
    \/ row.is_verified
    \/ row.user_id = uid
    \/ IsAdmin(uid)

DoctorsUpdatePolicy(uid, row) ==
    \/ row.user_id = uid
    \/ IsAdmin(uid)

---------------------------------------------------------------------------
(* The slot generator *)

Range(s) == {s[i] : i \in 1..Len(s)}

Orderings(S) ==
    {f \in [1..Cardinality(S) -> S] : \A i, j \in 1..Cardinality(S) : i # j => f[i] # f[j]}

\* a loop that marks a slot unavailable only when it is booked
RECURSIVE MutSlotLoopNoPast(_, _, _, _, _)
MutSlotLoopNoPast(currentTime, endTime, bookedTimes, selectedDate, clock) ==
    IF currentTime < endTime
    THEN << [time |-> FormatHHmm(currentTime),
             available |-> WithSeconds(FormatHHmm(currentTime)) \notin Range(bookedTimes)] >>
         \o MutSlotLoopNoPast(currentTime + SlotMinutes * 60, endTime,
                              bookedTimes, selectedDate, clock)
    ELSE <<>>

\* one round of the while loop of generateTimeSlots, and the rounds after it
RECURSIVE SlotLoop(_, _, _, _, _)
SlotLoop(currentTime, endTime, bookedTimes, selectedDate, clock) ==
    IF currentTime < endTime
    THEN LET timeStr == FormatHHmm(currentTime)
             isBooked == WithSeconds(timeStr) \in Range(bookedTimes)
             isPast == /\ IsSameDay(selectedDate, clock)
                       /\ clock > ParseDateTime(FormatDate(selectedDate), timeStr)
         IN  << [time |-> timeStr, available |-> ~isBooked /\ ~isPast] >> \o
             SlotLoop(currentTime + SlotMinutes * 60, endTime,
                      bookedTimes, selectedDate, clock)
    ELSE <<>>

\* a forEach that leaves out a time an earlier entry has emitted
RECURSIVE MutForEachDedup(_, _, _, _)
MutForEachDedup(schedules, bookedTimes, selectedDate, clock) ==
    IF schedules = <<>> THEN <<>>
    ELSE LET first == SlotLoop(ParseTime(Head(schedules).start_time),
                               ParseTime(Head(schedules).end_time),
                               bookedTimes, selectedDate, clock)
             rest == MutForEachDedup(Tail(schedules), bookedTimes, selectedDate, clock)
             Fresh(slot) == \A i \in 1..Len(first) : first[i].time # slot.time
         IN  first \o SelectSeq(rest, Fresh)

\* schedules.forEach(...)
RECURSIVE ForEachSchedule(_, _, _, _)
ForEachSchedule(schedules, bookedTimes, selectedDate, clock) ==
    IF schedules = <<>> THEN <<>>
    ELSE SlotLoop(ParseTime(Head(schedules).start_time), ParseTime(Head(schedules).end_time),
                  bookedTimes, selectedDate, clock)
         \o ForEachSchedule(Tail(schedules), bookedTimes, selectedDate, clock)

\* the rows the schedule query of generateTimeSlots matches
ScheduleQuery(table, uid, doctor_id, dayOfWeek) ==
    {r \in table : /\ SchedulesSelectPolicy(uid, r)
                   /\ r.doctor_id = doctor_id
                   /\ r.day_of_week = dayOfWeek
                   /\ r.is_available}

\* the appointment query of generateTimeSlots: the appointment_time column
BookedQuery(table, uid, doctor_id, dateStr) ==
    LET rows == SelectAppointments(table, uid)
        Match(r) == /\ r.doctor_id = doctor_id
                    /\ r.appointment_date = dateStr
                    /\ r.status \in {"pending", "confirmed"}
        hits == SelectSeq(rows, Match)
    IN  [i \in 1..Len(hits) |-> hits[i].appointment_time]

---------------------------------------------------------------------------
(* The storage layer's insert and update *)

\* an insert that is not checked against the uniqueness constraint
MutInsertNoUnique(table, uid, row, delivered) ==
    IF ~delivered THEN "network"
    ELSE IF ~AppointmentsInsertPolicy(uid, row) THEN "policy"
    ELSE "none"

\* the error an insert by uid ends with: "none" when the row is stored
InsertError(table, uid, row, delivered) ==
    IF ~delivered THEN "network"
    ELSE IF ~AppointmentsInsertPolicy(uid, row) THEN "policy"
    ELSE IF UniqueViolation(table, row) THEN "unique"
    ELSE "none"

InsertRow(table, row) == Append(table, [row EXCEPT !.id = Len(table) + 1])

\* update({ status }).eq('id', id) by uid: rows the policy hides are not touched
UpdateStatus(table, uid, id, status) ==
    IF id \in 1..Len(table) /\ AppointmentsUpdatePolicy(uid, table[id])
    THEN [table EXCEPT ![id].status = status]
    ELSE table

---------------------------------------------------------------------------
(* The booking form (BookAppointment) *)

ClosedForm ==
    [ doctor |-> NoDoctor, selectedDate |-> 0, selectedTime |-> NoTime,
      timeSlots |-> <<>>, slotsError |-> FALSE, submitting |-> FALSE, slotCalls |-> {},
      request |-> NoRequest, issuedFree |-> FALSE, outcome |-> "none", error |-> "none" ]

Mounted(s) == book[s].doctor # NoDoctor /\ book[s].outcome # "navigated"

InsertsInFlight == Cardinality({s \in Patients : book[s].submitting})

\* fetchDoctor: the row with the id of the route is returned when the caller may read
\* it; single() gives an error otherwise and the doctor stays null
FetchDoctor(table, uid, doctorId) ==
    \E r \in table : r.id = doctorId /\ DoctorsSelectPolicy(uid, r)

\* the route /book-appointment/:doctorId is opened: the component mounts, fetchDoctor
\* sets the doctor and the effect calls generateTimeSlots
OpenBooking(s, d) ==
    /\ ~book[s].submitting
    /\ book' = [book EXCEPT ![s] =
                  IF FetchDoctor(doctorsTable, s, d)
                  THEN [ClosedForm EXCEPT !.doctor = d, !.selectedDate = now,
                                          !.slotCalls = {now}]
                  ELSE ClosedForm]
    /\ UNCHANGED <<appointments, doctor_schedules, now, plist, dash, lastUpdate,
                 profilesTable, doctorsTable, dlist, route, login>>

\* a date button: setSelectedDate(date), and the effect calls generateTimeSlots
SelectDate(s, i) ==
    /\ Mounted(s)
    /\ LET date == AddDays(now, i)
       IN  book' = [book EXCEPT ![s].selectedDate = date,
                                ![s].slotCalls = @ \cup {date}]
    /\ UNCHANGED <<appointments, doctor_schedules, now, plist, dash, lastUpdate,
                 profilesTable, doctorsTable, dlist, route, login>>

\* a generator that carries on with no booked times when the appointment query fails
MutIgnoreAppointmentError(uid, doctor_id, selectedDate, schedules, scheduleError, appointmentError) ==
    IF scheduleError THEN <<>>
    ELSE ForEachSchedule(schedules,
                         IF appointmentError THEN <<>>
                         ELSE BookedQuery(appointments, uid, doctor_id,
                                          FormatDate(selectedDate)),
                         selectedDate, now)

\* what a call of generateTimeSlots for the date it captured sets the slot list to:
\* either query's error is thrown into the catch branch, setTimeSlots([])
GenerateTimeSlots(uid, doctor_id, selectedDate, schedules, scheduleError, appointmentError) ==
    IF scheduleError THEN <<>>
    ELSE IF appointmentError THEN <<>>
    ELSE ForEachSchedule(schedules,
                         BookedQuery(appointments, uid, doctor_id, FormatDate(selectedDate)),
                         selectedDate, now)

\* the two queries of one generateTimeSlots call answer and the call sets the slots
SlotsReply(s) ==
    /\ Mounted(s)
    /\ \E date \in book[s].slotCalls, scheduleError, appointmentError \in BOOLEAN :
         \* the appointment query is not made once the schedule query has failed
         \E schedules \in Orderings(ScheduleQuery(doctor_schedules, s, book[s].doctor,
                                                  GetDay(date))) :
            /\ ~(scheduleError /\ appointmentError)
            /\ book' = [book EXCEPT
                          ![s].slotCalls = @ \ {date},
                          ![s].slotsError = scheduleError \/ appointmentError,
                          ![s].timeSlots =
                              GenerateTimeSlots(s, book[s].doctor, date, schedules,
                                                scheduleError, appointmentError)]
    /\ UNCHANGED <<appointments, doctor_schedules, now, plist, dash, lastUpdate,
                 profilesTable, doctorsTable, dlist, route, login>>

\* a slot button: slot.available && setSelectedTime(slot.time)
SelectTime(s, k) ==
    /\ Mounted(s)
    /\ k \in 1..Len(book[s].timeSlots)
    /\ book[s].timeSlots[k].available
    /\ book' = [book EXCEPT ![s].selectedTime = book[s].timeSlots[k].time]
    /\ UNCHANGED <<appointments, doctor_schedules, now, plist, dash, lastUpdate,
                 profilesTable, doctorsTable, dlist, route, login>>

\* a row that takes today for the date instead of the date selected
MutBookingRowToday(s) ==
    [ id |-> 0,
      patient_id |-> s,
      doctor_id |-> book[s].doctor,
      appointment_date |-> FormatDate(now),
      appointment_time |-> WithSeconds(book[s].selectedTime),
      status |-> "pending" ]

\* the row handleBookAppointment inserts
BookingRow(s) ==
    [ id |-> 0,
      patient_id |-> s,
      doctor_id |-> book[s].doctor,
      appointment_date |-> FormatDate(book[s].selectedDate),
      appointment_time |-> WithSeconds(book[s].selectedTime),
      status |-> "pending" ]

\* the Book button: handleBookAppointment up to its await
HandleBookAppointment(s) ==
    /\ Mounted(s)
    /\ book[s].selectedTime # NoTime
    /\ ~book[s].submitting
    /\ Len(appointments) + InsertsInFlight < MaxAppointments
    /\ book' = [book EXCEPT ![s].submitting = TRUE,
                            ![s].request = BookingRow(s),
                            ![s].issuedFree = ~UniqueViolation(appointments, BookingRow(s))]
    /\ UNCHANGED <<appointments, doctor_schedules, now, plist, dash, lastUpdate,
                 profilesTable, doctorsTable, dlist, route, login>>

\* a handler that navigates to the appointment list whatever the insert answered
MutInsertReplyNavigates(s) ==
    /\ book[s].submitting
    /\ \E delivered \in BOOLEAN :
         LET error == InsertError(appointments, s, book[s].request, delivered)
         IN  /\ appointments' = IF error = "none"
                                THEN InsertRow(appointments, book[s].request)
                                ELSE appointments
             /\ book' = [book EXCEPT ![s].submitting = FALSE,
                                     ![s].error = error,
                                     ![s].outcome = "navigated"]
    /\ UNCHANGED <<doctor_schedules, now, plist, dash, lastUpdate,
                 profilesTable, doctorsTable, dlist, route, login>>

\* the insert is served and handleBookAppointment runs to its end
InsertReply(s) ==
    /\ book[s].submitting
    /\ \E delivered \in BOOLEAN :
         LET error == InsertError(appointments, s, book[s].request, delivered)
         IN  /\ appointments' = IF error = "none"
                                THEN InsertRow(appointments, book[s].request)
                                ELSE appointments
             /\ book' = [book EXCEPT ![s].submitting = FALSE,
                                     ![s].error = error,
                                     ![s].outcome = IF error = "none" THEN "navigated"
                                                    ELSE "alert"]
    /\ UNCHANGED <<doctor_schedules, now, plist, dash, lastUpdate,
                 profilesTable, doctorsTable, dlist, route, login>>

---------------------------------------------------------------------------
(* The patient appointment list (PatientAppointments) and the doctor dashboard
   (DoctorDashboard) *)

NoList == [appointments |-> <<>>]
NoPatientList == [appointments |-> <<>>, filter |-> "all"]
NoStats == [total_appointments |-> 0, pending_appointments |-> 0,
            todays_appointments |-> 0, this_week_appointments |-> 0]
NoDashboard == [appointments |-> <<>>, stats |-> NoStats]
NoDirectory == [doctors |-> {}, specializations |-> {}, searchTerm |-> <<>>,
                selectedSpecialization |-> <<>>]
\* before any route is rendered: the auth context is still loading
NullProfile == [id |-> "null", role |-> "null"]
\* trail: the paths the session was redirected away from since it last went to a path
NoRoute == [path |-> "none", loading |-> TRUE, user |-> "null", profile |-> NullProfile,
            trail |-> {}]
NoUpdate == [via |-> "none"]
\* LoginForm as it mounts; request: the call of useAuth made last, with pending while
\* it is awaited and roleEdited telling whether the role field had been changed
NoLogin == [isLogin |-> TRUE, loading |-> FALSE, email |-> "", role |-> "patient",
            error |-> "", roleEdited |-> FALSE,
            request |-> [kind |-> "none", role |-> "none", roleEdited |-> FALSE,
                         pending |-> FALSE]]

\* order('appointment_date').order('appointment_time'): rows that tie come in any order
SortKey(r) == r.appointment_date * SecondsPerDay + ParseTime(r.appointment_time)

Ordered(S) ==
    {f \in Orderings(S) : \A i, j \in 1..Cardinality(S) : i < j => SortKey(f[i]) <= SortKey(f[j])}

\* the rows fetchAppointments asks for
PatientQuery(table, uid) ==
    {r \in Range(SelectAppointments(table, uid)) : r.patient_id = uid}

\* the rows the appointment query of fetchDashboardData asks for
DashboardQuery(table, uid, clock) ==
    {r \in Range(SelectAppointments(table, uid)) :
        /\ \E d \in doctors : d.user_id = uid /\ r.doctor_id = d.id
        /\ r.appointment_date >= FormatDate(clock)}

\* the rows the statistics query of fetchDashboardData asks for
StatsQuery(table, uid) ==
    {r \in Range(SelectAppointments(table, uid)) :
        \E d \in doctors : d.user_id = uid /\ r.doctor_id = d.id}

\* addDays(new Date(), 7)
WeekDays == 7

\* statistics whose week ends before the day a week from now
MutStatsWeekExclusive(allAppointments, clock) ==
    LET today == FormatDate(clock)
        weekFromNow == FormatDate(AddDays(clock, WeekDays))
    IN  [ total_appointments |-> Cardinality(allAppointments),
          pending_appointments |->
              Cardinality({a \in allAppointments : a.status = "pending"}),
          todays_appointments |->
              Cardinality({a \in allAppointments : a.appointment_date = today}),
          this_week_appointments |->
              Cardinality({a \in allAppointments :
                             a.appointment_date >= today /\ a.appointment_date < weekFromNow}) ]

\* calculatedStats of fetchDashboardData
CalculatedStats(allAppointments, clock) ==
    LET today == FormatDate(clock)
        weekFromNow == FormatDate(AddDays(clock, WeekDays))
    IN  [ total_appointments |-> Cardinality(allAppointments),
          pending_appointments |->
              Cardinality({a \in allAppointments : a.status = "pending"}),
          todays_appointments |->
              Cardinality({a \in allAppointments : a.appointment_date = today}),
          this_week_appointments |->
              Cardinality({a \in allAppointments :
                             a.appointment_date >= today /\ a.appointment_date <= weekFromNow}) ]

\* the mount effect of PatientAppointments: fetchAppointments
FetchAppointments(s) ==
    /\ \E delivered \in BOOLEAN :
         IF delivered
         THEN \E rows \in Ordered(PatientQuery(appointments, s)) :
                 plist' = [plist EXCEPT ![s].appointments = rows]
         ELSE plist' = plist
    /\ UNCHANGED <<appointments, doctor_schedules, now, book, dash, lastUpdate,
                 profilesTable, doctorsTable, dlist, route, login>>

\* a list that takes no appointment for past
MutIsPastNever(r, clock) == FALSE

\* isPast(parseISO(`${appointment_date}T${appointment_time}`))
IsPast(r, clock) == r.appointment_date * SecondsPerDay + ParseTime(r.appointment_time) < clock

\* a Past tab that goes by the date and time alone
MutIsShownPastByTime(apt, filter, clock) ==
    IF filter = "upcoming"
    THEN ~IsPast(apt, clock) /\ apt.status # "cancelled" /\ apt.status # "completed"
    ELSE IF filter = "past" THEN IsPast(apt, clock)
    ELSE TRUE

\* the predicate of filteredAppointments
IsShown(apt, filter, clock) ==
    IF filter = "upcoming"
    THEN ~IsPast(apt, clock) /\ apt.status # "cancelled" /\ apt.status # "completed"
    ELSE IF filter = "past"
    THEN IsPast(apt, clock) \/ apt.status = "completed" \/ apt.status = "cancelled"
    ELSE TRUE

\* filteredAppointments of a render at the instant clock
FilteredAppointments(list, filter, clock) ==
    SelectSeq(list, LAMBDA apt : IsShown(apt, filter, clock))

Filters == {"all", "upcoming", "past"}

\* a filter tab: setFilter(tab.key)
SetFilter(s, filter) ==
    /\ plist' = [plist EXCEPT ![s].filter = filter]
    /\ UNCHANGED <<appointments, doctor_schedules, now, book, dash, lastUpdate,
                 profilesTable, doctorsTable, dlist, route, login>>

\* the Cancel button of row k of the list: cancelAppointment
CancelAppointment(s, k) ==
    /\ k \in 1..Len(plist[s].appointments)
    /\ plist[s].appointments[k].status = "pending"
    /\ ~IsPast(plist[s].appointments[k], now)
    /\ \E confirmed, delivered, refetched \in BOOLEAN :
         LET id == plist[s].appointments[k].id
             stored == UpdateStatus(appointments, s, id, "cancelled")
             shown == plist[s].appointments[k].status
             asked == [via |-> "patientList", uid |-> s, id |-> id,
                       status |-> "cancelled", shown |-> shown]
         IN  IF ~confirmed
             THEN /\ lastUpdate' = asked @@ [sent |-> FALSE, alert |-> FALSE,
                                             refetched |-> FALSE]
                  /\ UNCHANGED <<appointments, plist>>
             ELSE IF delivered
             THEN /\ appointments' = stored
                  /\ lastUpdate' = asked @@ [sent |-> TRUE, alert |-> FALSE,
                                             refetched |-> refetched]
                  /\ IF refetched
                     THEN \E rows \in Ordered(PatientQuery(stored, s)) :
                             plist' = [plist EXCEPT ![s].appointments = rows]
                     ELSE plist' = plist
             ELSE /\ lastUpdate' = asked @@ [sent |-> TRUE, alert |-> TRUE,
                                             refetched |-> FALSE]
                  /\ UNCHANGED <<appointments, plist>>
    /\ UNCHANGED <<doctor_schedules, now, book, dash,
                 profilesTable, doctorsTable, dlist, route, login>>

\* the mount effect of DoctorDashboard: fetchDashboardData
FetchDashboardData(u) ==
    /\ \E delivered \in BOOLEAN :
         IF delivered /\ \E d \in doctors : d.user_id = u
         THEN \E rows \in Ordered(DashboardQuery(appointments, u, now)) :
                 dash' = [dash EXCEPT
                            ![u].appointments = rows,
                            ![u].stats = CalculatedStats(StatsQuery(appointments, u), now)]
         ELSE dash' = dash
    /\ UNCHANGED <<appointments, doctor_schedules, now, book, plist, lastUpdate,
                 profilesTable, doctorsTable, dlist, route, login>>

\* a dashboard that also renders Cancel for a confirmed row
MutOfferedCancelConfirmed(displayed) ==
    IF displayed = "pending" THEN {"confirmed", "cancelled"}
    ELSE IF displayed = "confirmed" THEN {"completed", "cancelled"}
    ELSE {}

\* the buttons the dashboard renders for a row with the displayed status
Offered(displayed) ==
    IF displayed = "pending" THEN {"confirmed", "cancelled"}
    ELSE IF displayed = "confirmed" THEN {"completed"}
    ELSE {}

\* a variant that shows the new status before the answer and keeps it on failure
MutUpdateOptimistic(u, k, status) ==
    /\ k \in 1..Len(dash[u].appointments)
    /\ status \in Offered(dash[u].appointments[k].status)
    /\ \E delivered, refetched \in BOOLEAN :
         LET id == dash[u].appointments[k].id
             stored == UpdateStatus(appointments, u, id, status)
             asked == [via |-> "dashboard", uid |-> u, id |-> id,
                       status |-> status,
                       shown |-> dash[u].appointments[k].status]
         IN  IF delivered
             THEN /\ appointments' = stored
                  /\ lastUpdate' = asked @@ [sent |-> TRUE, alert |-> FALSE,
                                             refetched |-> refetched]
                  /\ IF refetched
                     THEN \E rows \in Ordered(DashboardQuery(stored, u, now)) :
                             dash' = [dash EXCEPT
                                        ![u].appointments = rows,
                                        ![u].stats =
                                            CalculatedStats(StatsQuery(stored, u), now)]
                     ELSE dash' = dash
             ELSE /\ lastUpdate' = asked @@ [sent |-> TRUE, alert |-> TRUE,
                                             refetched |-> FALSE]
                  /\ dash' = [dash EXCEPT ![u].appointments[k].status = status]
                  /\ UNCHANGED appointments
    /\ UNCHANGED <<doctor_schedules, now, book, plist,
                 profilesTable, doctorsTable, dlist, route, login>>

\* a button of row k of the dashboard: updateAppointmentStatus
UpdateAppointmentStatus(u, k, status) ==
    /\ k \in 1..Len(dash[u].appointments)
    /\ status \in Offered(dash[u].appointments[k].status)
    /\ \E delivered, refetched \in BOOLEAN :
         LET id == dash[u].appointments[k].id
             stored == UpdateStatus(appointments, u, id, status)
             asked == [via |-> "dashboard", uid |-> u, id |-> id,
                       status |-> status,
                       shown |-> dash[u].appointments[k].status]
         IN  IF delivered
             THEN /\ appointments' = stored
                  /\ lastUpdate' = asked @@ [sent |-> TRUE, alert |-> FALSE,
                                             refetched |-> refetched]
                  /\ IF refetched
                     THEN \E rows \in Ordered(DashboardQuery(stored, u, now)) :
                             dash' = [dash EXCEPT
                                        ![u].appointments = rows,
                                        ![u].stats =
                                            CalculatedStats(StatsQuery(stored, u), now)]
                     ELSE dash' = dash
             ELSE /\ lastUpdate' = asked @@ [sent |-> TRUE, alert |-> TRUE,
                                             refetched |-> FALSE]
                  /\ UNCHANGED <<appointments, dash>>
    /\ UNCHANGED <<doctor_schedules, now, book, plist,
                 profilesTable, doctorsTable, dlist, route, login>>

\* an update request made of the storage layer directly, with any signed-in identity
ApiUpdate(uid, id, status) ==
    /\ id \in 1..Len(appointments)
    /\ appointments' = UpdateStatus(appointments, uid, id, status)
    /\ lastUpdate' = [via |-> "api", uid |-> uid, id |-> id, status |-> status,
                      shown |-> "none", sent |-> TRUE,
                      alert |-> FALSE, refetched |-> FALSE]
    /\ UNCHANGED <<doctor_schedules, now, book, plist, dash,
                 profilesTable, doctorsTable, dlist, route, login>>

---------------------------------------------------------------------------
(* The clock *)

ClockInstants == {8 * SecondsPerHour, 9 * SecondsPerHour + 15 * 60}

Tick ==
    /\ \E t \in ClockInstants : t > now /\ now' = t
    /\ UNCHANGED <<appointments, doctor_schedules, book, plist, dash, lastUpdate,
                 profilesTable, doctorsTable, dlist, route, login>>

---------------------------------------------------------------------------
(* A status update served by the storage layer for any signed-in caller *)

StatusUpdate(uid, id, status) ==
    /\ appointments' = UpdateStatus(appointments, uid, id, status)
    /\ appointments' # appointments
    /\ UNCHANGED <<doctor_schedules, now, book, plist, dash, lastUpdate,
                 profilesTable, doctorsTable, dlist, route, login>>

---------------------------------------------------------------------------
(* The booking system *)

Time(h, m) == <<h, m, 0>>

SeedSchedules ==
    { [doctor_id |-> "d1", day_of_week |-> 0, start_time |-> Time(9, 0),
       end_time |-> Time(9, 30), is_available |-> TRUE],
      [doctor_id |-> "d1", day_of_week |-> 1, start_time |-> Time(9, 0),
       end_time |-> Time(9, 30), is_available |-> TRUE],
      [doctor_id |-> "d2", day_of_week |-> 1, start_time |-> Time(9, 0),
       end_time |-> Time(10, 0), is_available |-> FALSE] }

Init ==
    /\ appointments = <<>>
    /\ doctor_schedules = SeedSchedules
    /\ now = 8 * SecondsPerHour
    /\ book = [s \in Patients |-> ClosedForm]
    /\ plist = [s \in Patients |-> NoPatientList]
    /\ dash = [u \in DoctorUsers |-> NoDashboard]
    /\ lastUpdate = NoUpdate
    /\ profilesTable = profiles
    /\ doctorsTable = doctors
    /\ dlist = [s \in Patients |-> NoDirectory]
    /\ route = [u \in Users |-> NoRoute]
    /\ login = NoLogin

Next ==
    \/ \E s \in Patients, d \in DoctorIds : OpenBooking(s, d)
    \/ \E s \in Patients, i \in 0..MaxAhead :
          Cardinality(book[s].slotCalls) < MaxInFlight /\ SelectDate(s, i)
    \/ \E s \in Patients : SlotsReply(s)
    \/ \E s \in Patients, k \in 1..4 : SelectTime(s, k)
    \/ \E s \in Patients : HandleBookAppointment(s)
    \/ \E s \in Patients : InsertReply(s)
    \/ \E uid \in Users, id \in 1..MaxAppointments, status \in Statuses :
          StatusUpdate(uid, id, status)

Spec == Init /\ [][Next]_vars

---------------------------------------------------------------------------
(* The status operations of the screens, on tables as bookings leave them *)

StatusSchedules ==
    SeedSchedules \cup
    { [doctor_id |-> "d2", day_of_week |-> 0, start_time |-> Time(9, 0),
       end_time |-> Time(9, 30), is_available |-> TRUE] }

\* the first slot of each entry a patient is shown, on the days the form offers from day 0
FirstSlots(schedules) ==
    UNION { { <<e.doctor_id, day, e.start_time>> :
                day \in {d \in 0..MaxAhead : d % 7 = e.day_of_week} } :
            e \in {x \in schedules :
                      x.is_available /\ ParseTime(x.start_time) < ParseTime(x.end_time)} }

\* the tables bookings of those slots by the patients leave: every row pending
BookedTables(schedules) ==
    LET picks == Patients \X FirstSlots(schedules)
        Row(i, pick) == [ id |-> i, patient_id |-> pick[1], doctor_id |-> pick[2][1],
                          appointment_date |-> pick[2][2], appointment_time |-> pick[2][3],
                          status |-> "pending" ]
    IN  UNION { { [i \in 1..n |-> Row(i, t[i])] :
                    t \in {f \in [1..n -> picks] :
                             \A i, j \in 1..n : i # j => f[i][2] # f[j][2]} } :
                n \in 0..MaxAppointments }

StatusInit ==
    /\ doctor_schedules = StatusSchedules
    /\ appointments \in BookedTables(StatusSchedules)
    /\ now = 8 * SecondsPerHour
    /\ book = [s \in Patients |-> ClosedForm]
    /\ plist = [s \in Patients |-> NoPatientList]
    /\ dash = [u \in DoctorUsers |-> NoDashboard]
    /\ lastUpdate = NoUpdate
    /\ profilesTable = profiles
    /\ doctorsTable = doctors
    /\ dlist = [s \in Patients |-> NoDirectory]
    /\ route = [u \in Users |-> NoRoute]
    /\ login = NoLogin

StatusNext ==
    \/ \E s \in Patients : FetchAppointments(s)
    \/ \E s \in Patients, k \in 1..MaxAppointments : CancelAppointment(s, k)
    \/ \E u \in DoctorUsers : FetchDashboardData(u)
    \/ \E u \in DoctorUsers, k \in 1..MaxAppointments, status \in Statuses :
          UpdateAppointmentStatus(u, k, status)
    \/ Tick

StatusSpec == StatusInit /\ [][StatusNext]_vars

---------------------------------------------------------------------------
(* Update requests of any signed-in caller, served by the storage layer *)

PolicyNext ==
    \E uid \in Users, id \in 1..MaxAppointments, status \in Statuses :
        ApiUpdate(uid, id, status)

PolicySpec == StatusInit /\ [][PolicyNext]_vars

---------------------------------------------------------------------------
(* The slot generator over the schedules, appointments and clock readings it can
   meet: one patient's form is open on a doctor and a date, and its
   generateTimeSlots call is answered *)

SlotClockInstants == ClockInstants \cup {9 * SecondsPerHour}

\* start and end of a schedule entry: end after, at and before the start, and an
\* end that is not a whole number of slots after the start
EntrySpans ==
    { <<Time(9, 0), Time(10, 0)>>, <<Time(9, 0), Time(9, 45)>>, <<Time(9, 30), Time(9, 30)>>,
      <<Time(9, 30), Time(9, 0)>>, <<Time(9, 30), Time(10, 30)>> }

EntryRows ==
    { [doctor_id |-> "d1", day_of_week |-> dow, start_time |-> span[1],
       end_time |-> span[2], is_available |-> avail] :
         dow \in {GetDay(AddDays(0, i)) : i \in 0..MaxAhead},
         span \in EntrySpans, avail \in BOOLEAN }
    \cup
    { [doctor_id |-> "d2", day_of_week |-> 0, start_time |-> Time(9, 0),
       end_time |-> Time(10, 0), is_available |-> TRUE] }

\* UNIQUE(doctor_id, day_of_week, start_time)
ScheduleTables ==
    { t \in SUBSET EntryRows :
        /\ Cardinality(t) <= MaxEntries
        /\ \A a, b \in t : (/\ a.doctor_id = b.doctor_id
                            /\ a.day_of_week = b.day_of_week
                            /\ a.start_time = b.start_time) => a = b }

HourlyTables ==
    { { [doctor_id |-> "d1", day_of_week |-> GetDay(AddDays(0, i)), start_time |-> Time(9, 0),
         end_time |-> Time(10, 0), is_available |-> TRUE] : i \in 0..MaxAhead } }

AppointmentRows(times, statuses) ==
    [ id : {0}, patient_id : Patients, doctor_id : {"d1"}, appointment_date : 0..MaxAhead,
      appointment_time : times, status : statuses ]

\* the tables of at most n of the rows, no two for one slot, id = position
AppointmentTables(rows, n) ==
    UNION { { [i \in 1..m |-> [t[i] EXCEPT !.id = i]] :
                t \in {f \in [1..m -> rows] :
                         \A i, j \in 1..m : i # j => ~SameSlot(f[i], f[j])} } :
            m \in 0..n }

SlotInit ==
    /\ \/ /\ doctor_schedules \in ScheduleTables
          /\ appointments \in AppointmentTables(AppointmentRows({Time(9, 30)}, {"confirmed"}), 1)
       \/ /\ doctor_schedules \in HourlyTables
          /\ appointments \in AppointmentTables(AppointmentRows({Time(9, 0), Time(9, 30)},
                                                                Statuses), MaxAppointments)
    /\ now \in SlotClockInstants
    /\ \E s \in Patients, d \in DoctorIds, i \in 0..MaxAhead :
          book = [x \in Patients |->
                    IF x = s
                    THEN [ClosedForm EXCEPT !.doctor = d, !.selectedDate = AddDays(now, i),
                                            !.slotCalls = {AddDays(now, i)}]
                    ELSE ClosedForm]
    /\ plist = [s \in Patients |-> NoPatientList]
    /\ dash = [u \in DoctorUsers |-> NoDashboard]
    /\ lastUpdate = NoUpdate
    /\ profilesTable = profiles
    /\ doctorsTable = doctors
    /\ dlist = [s \in Patients |-> NoDirectory]
    /\ route = [u \in Users |-> NoRoute]
    /\ login = NoLogin

SlotNext == \E s \in Patients : SlotsReply(s)

SlotSpec == SlotInit /\ [][SlotNext]_vars

---------------------------------------------------------------------------
(* One booking session whose slot requests overlap: a date is selected while
   earlier generateTimeSlots calls are still awaiting their queries, and the
   calls are answered in any order *)

RaceInit ==
    /\ doctor_schedules = SeedSchedules
    /\ appointments \in BookedTables(SeedSchedules)
    /\ now \in ClockInstants
    /\ book = [s \in Patients |-> ClosedForm]
    /\ plist = [s \in Patients |-> NoPatientList]
    /\ dash = [u \in DoctorUsers |-> NoDashboard]
    /\ lastUpdate = NoUpdate
    /\ profilesTable = profiles
    /\ doctorsTable = doctors
    /\ dlist = [s \in Patients |-> NoDirectory]
    /\ route = [u \in Users |-> NoRoute]
    /\ login = NoLogin

RaceNext ==
    \/ \E d \in DoctorIds : OpenBooking("p1", d)
    \/ \E i \in 0..MaxAhead : SelectDate("p1", i)
    \/ SlotsReply("p1")

RaceSpec == RaceInit /\ [][RaceNext]_vars

---------------------------------------------------------------------------
(* One patient booking a doctor who works on one day of the week only *)

SundaySchedules == {e \in SeedSchedules : e.doctor_id = "d1" /\ e.day_of_week = 0}

TripInit ==
    /\ doctor_schedules = SundaySchedules
    /\ appointments = <<>>
    /\ now = 8 * SecondsPerHour
    /\ book = [s \in Patients |-> ClosedForm]
    /\ plist = [s \in Patients |-> NoPatientList]
    /\ dash = [u \in DoctorUsers |-> NoDashboard]
    /\ lastUpdate = NoUpdate
    /\ profilesTable = profiles
    /\ doctorsTable = doctors
    /\ dlist = [s \in Patients |-> NoDirectory]
    /\ route = [u \in Users |-> NoRoute]
    /\ login = NoLogin

TripNext ==
    \/ OpenBooking("p1", "d1")
    \/ \E i \in 0..MaxAhead : SelectDate("p1", i)
    \/ SlotsReply("p1")
    \/ \E k \in 1..4 : SelectTime("p1", k)
    \/ HandleBookAppointment("p1")
    \/ InsertReply("p1")
    \/ \E uid \in Users, id \in 1..MaxAppointments, status \in Statuses :
          StatusUpdate(uid, id, status)

TripSpec == TripInit /\ [][TripNext]_vars

---------------------------------------------------------------------------
(* The filter tabs of one patient's appointment list, over appointments of every
   status, before and after their time *)

FilterInit ==
    /\ doctor_schedules = SeedSchedules
    /\ appointments \in AppointmentTables(AppointmentRows({Time(9, 0), Time(9, 30)}, Statuses),
                                          MaxAppointments)
    /\ now = 8 * SecondsPerHour
    /\ book = [s \in Patients |-> ClosedForm]
    /\ plist = [s \in Patients |-> NoPatientList]
    /\ dash = [u \in DoctorUsers |-> NoDashboard]
    /\ lastUpdate = NoUpdate
    /\ profilesTable = profiles
    /\ doctorsTable = doctors
    /\ dlist = [s \in Patients |-> NoDirectory]
    /\ route = [u \in Users |-> NoRoute]
    /\ login = NoLogin

FilterNext ==
    \/ FetchAppointments("p1")
    \/ \E filter \in Filters : SetFilter("p1", filter)
    \/ Tick

FilterSpec == FilterInit /\ [][FilterNext]_vars

---------------------------------------------------------------------------
(* The doctor dashboard over appointments dated before today, today, a week from
   today and later *)

StatsToday == 1

StatsDates == {StatsToday - 1, StatsToday, StatsToday + WeekDays, StatsToday + WeekDays + 1}

StatsRows ==
    [ id : {0}, patient_id : {"p1"}, doctor_id : DoctorIds, appointment_date : StatsDates,
      appointment_time : {Time(9, 0)}, status : Statuses ]

StatsInit ==
    /\ doctor_schedules = SeedSchedules
    /\ appointments \in AppointmentTables(StatsRows, MaxAppointments)
    /\ now = AddDays(8 * SecondsPerHour, StatsToday)
    /\ book = [s \in Patients |-> ClosedForm]
    /\ plist = [s \in Patients |-> NoPatientList]
    /\ dash = [u \in DoctorUsers |-> NoDashboard]
    /\ lastUpdate = NoUpdate
    /\ profilesTable = profiles
    /\ doctorsTable = doctors
    /\ dlist = [s \in Patients |-> NoDirectory]
    /\ route = [u \in Users |-> NoRoute]
    /\ login = NoLogin

StatsNext ==
    \/ \E u \in DoctorUsers : FetchDashboardData(u)
    \/ \E u \in DoctorUsers, k \in 1..MaxAppointments, status \in Statuses :
          UpdateAppointmentStatus(u, k, status)

StatsSpec == StatsInit /\ [][StatsNext]_vars

---------------------------------------------------------------------------
(* The doctor directory (DoctorsList).  A string is the tuple of its characters. *)

LowerChar(c) == IF c = "A" THEN "a" ELSE IF c = "B" THEN "b" ELSE c

\* String.toLowerCase()
ToLowerCase(str) == [i \in 1..Len(str) |-> LowerChar(str[i])]

\* String.includes(sub)
Includes(str, sub) ==
    \E i \in 0..Len(str) : i + Len(sub) <= Len(str) /\ SubSeq(str, i + 1, i + Len(sub)) = sub

\* profiles is null in a fetched row when the join returns no profile
NoProfile == "null"

\* a query that asks for verified doctors only
MutDoctorsQueryVerified(table, uid) ==
    {r \in table : DoctorsSelectPolicy(uid, r) /\ r.is_verified}

\* the rows the query of fetchDoctors matches
DoctorsQuery(table, uid) ==
    {r \in table : DoctorsSelectPolicy(uid, r) /\ r.is_verified /\ r.is_available}

\* the mount effect of DoctorsList: fetchDoctors
FetchDoctors(s) ==
    /\ \E delivered \in BOOLEAN :
         IF delivered
         THEN LET data == DoctorsQuery(doctorsTable, s)
              IN  dlist' = [dlist EXCEPT ![s].doctors = data,
                                         ![s].specializations =
                                             {d.specialization : d \in data}]
         ELSE dlist' = dlist
    /\ UNCHANGED <<appointments, doctor_schedules, now, book, plist, dash, lastUpdate,
                   profilesTable, doctorsTable, route, login>>

\* the search box
SetSearchTerm(s, term) ==
    /\ dlist' = [dlist EXCEPT ![s].searchTerm = term]
    /\ UNCHANGED <<appointments, doctor_schedules, now, book, plist, dash, lastUpdate,
                   profilesTable, doctorsTable, route, login>>

\* the specialization select: '' or one of the fetched specializations
SetSelectedSpecialization(s, spec) ==
    /\ spec \in {<<>>} \cup dlist[s].specializations
    /\ dlist' = [dlist EXCEPT ![s].selectedSpecialization = spec]
    /\ UNCHANGED <<appointments, doctor_schedules, now, book, plist, dash, lastUpdate,
                   profilesTable, doctorsTable, route, login>>

\* the Clear Filters button
ClearFilters(s) ==
    /\ dlist' = [dlist EXCEPT ![s].searchTerm = <<>>, ![s].selectedSpecialization = <<>>]
    /\ UNCHANGED <<appointments, doctor_schedules, now, book, plist, dash, lastUpdate,
                   profilesTable, doctorsTable, route, login>>

\* doctors.filter(...)
FilteredDoctors(s) ==
    {doctor \in dlist[s].doctors :
        LET term == ToLowerCase(dlist[s].searchTerm)
            matchesSearch ==
                \/ /\ doctor.full_name # NoProfile
                   /\ Includes(ToLowerCase(doctor.full_name), term)
                \/ Includes(ToLowerCase(doctor.specialization), term)
            matchesSpecialization ==
                \/ dlist[s].selectedSpecialization = <<>>
                \/ doctor.specialization = dlist[s].selectedSpecialization
        IN  matchesSearch /\ matchesSpecialization}

\* an update of a doctor row's flags served by the storage layer
UpdateDoctor(uid, id, verified, available) ==
    /\ \E r \in doctorsTable :
          /\ r.id = id
          /\ DoctorsUpdatePolicy(uid, r)
          /\ doctorsTable' = (doctorsTable \ {r}) \cup
                {[r EXCEPT !.is_verified = verified, !.is_available = available]}
    /\ doctorsTable' # doctorsTable
    /\ UNCHANGED <<appointments, doctor_schedules, now, book, plist, dash, lastUpdate,
                   profilesTable, dlist, route, login>>

SearchTerms == { <<>>, <<"B">>, <<"a", "b", "a">> }

\* doctor rows with the name of their profile joined in
DirectoryRows ==
    { [id |-> "d1", user_id |-> "u1", specialization |-> <<"B", "a">>,
       full_name |-> <<"A", "b">>],
      [id |-> "d2", user_id |-> "u2", specialization |-> <<"a", "a">>,
       full_name |-> NoProfile] }

DirectoryTables ==
    { {[id |-> r.id, user_id |-> r.user_id, specialization |-> r.specialization,
        full_name |-> r.full_name, is_verified |-> flags[r.id][1],
        is_available |-> flags[r.id][2]] : r \in DirectoryRows} :
      flags \in [{r.id : r \in DirectoryRows} -> BOOLEAN \X BOOLEAN] }

DirectoryInit ==
    /\ appointments = <<>>
    /\ doctor_schedules = SeedSchedules
    /\ now = 8 * SecondsPerHour
    /\ book = [s \in Patients |-> ClosedForm]
    /\ plist = [s \in Patients |-> NoPatientList]
    /\ dash = [u \in DoctorUsers |-> NoDashboard]
    /\ lastUpdate = NoUpdate
    /\ profilesTable = profiles
    /\ doctorsTable \in DirectoryTables
    /\ dlist = [s \in Patients |-> NoDirectory]
    /\ route = [u \in Users |-> NoRoute]
    /\ login = NoLogin

DirectoryNext ==
    \/ \E s \in Patients : FetchDoctors(s)
    \/ \E s \in Patients, term \in SearchTerms : SetSearchTerm(s, term)
    \/ \E s \in Patients, spec \in {<<>>} \cup {r.specialization : r \in DirectoryRows} :
          SetSelectedSpecialization(s, spec)
    \/ \E s \in Patients : ClearFilters(s)
    \/ \E uid \in DoctorUsers \cup Admins, id \in DoctorIds, verified, available \in BOOLEAN :
          UpdateDoctor(uid, id, verified, available)

DirectorySpec == DirectoryInit /\ [][DirectoryNext]_vars

---------------------------------------------------------------------------
(* One patient opening the booking route of any doctor row, while the doctor and
   the admin change the flags of the row *)

DirectInit ==
    /\ appointments = <<>>
    /\ doctor_schedules = SeedSchedules
    /\ now = 8 * SecondsPerHour
    /\ book = [s \in Patients |-> ClosedForm]
    /\ plist = [s \in Patients |-> NoPatientList]
    /\ dash = [u \in DoctorUsers |-> NoDashboard]
    /\ lastUpdate = NoUpdate
    /\ profilesTable = profiles
    /\ doctorsTable \in DirectoryTables
    /\ dlist = [s \in Patients |-> NoDirectory]
    /\ route = [u \in Users |-> NoRoute]
    /\ login = NoLogin

DirectNext ==
    \/ \E d \in DoctorIds : OpenBooking("p1", d)
    \/ SlotsReply("p1")
    \/ \E k \in 1..4 : SelectTime("p1", k)
    \/ HandleBookAppointment("p1")
    \/ InsertReply("p1")
    \/ \E uid \in DoctorUsers \cup Admins, id \in DoctorIds, verified, available \in BOOLEAN :
          UpdateDoctor(uid, id, verified, available)

DirectSpec == DirectInit /\ [][DirectNext]_vars

---------------------------------------------------------------------------
(* Foreign keys of the schema: deletes cascade, inserts are checked *)

\* a cascade that follows doctor_id only
MutCascadeDoctorOnly(table, gone, goneDoctors) ==
    LET Kept(r) == r.doctor_id \notin goneDoctors
    IN  SelectSeq(table, Kept)

\* appointments.patient_id and appointments.doctor_id ... ON DELETE CASCADE
CascadeAppointments(table, gone, goneDoctors) ==
    LET Kept(r) == r.patient_id \notin gone /\ r.doctor_id \notin goneDoctors
    IN  SelectSeq(table, Kept)

\* doctor_schedules.doctor_id ... ON DELETE CASCADE
CascadeSchedules(table, goneDoctors) == {r \in table : r.doctor_id \notin goneDoctors}

\* DELETE FROM profiles WHERE id = ..., with doctors.user_id ... ON DELETE CASCADE
DeleteProfile(id) ==
    /\ \E p \in profilesTable : p.id = id
    /\ LET goneDoctors == {d.id : d \in {x \in doctorsTable : x.user_id = id}}
       IN  /\ profilesTable' = {p \in profilesTable : p.id # id}
           /\ doctorsTable' = {d \in doctorsTable : d.user_id # id}
           /\ doctor_schedules' = CascadeSchedules(doctor_schedules, goneDoctors)
           /\ appointments' = CascadeAppointments(appointments, {id}, goneDoctors)
    /\ UNCHANGED <<now, book, plist, dash, lastUpdate, dlist, route, login>>

\* DELETE FROM doctors WHERE id = ...
DeleteDoctor(id) ==
    /\ \E d \in doctorsTable : d.id = id
    /\ doctorsTable' = {d \in doctorsTable : d.id # id}
    /\ doctor_schedules' = CascadeSchedules(doctor_schedules, {id})
    /\ appointments' = CascadeAppointments(appointments, {}, {id})
    /\ UNCHANGED <<now, book, plist, dash, lastUpdate, profilesTable, dlist, route, login>>

\* an id no row of the table has: gen_random_uuid()
FreshId(table) ==
    CHOOSE n \in 1..(Len(table) + 1) : \A i \in 1..Len(table) : table[i].id # n

\* INSERT INTO appointments: REFERENCES profiles(id), REFERENCES doctors(id) and the
\* UNIQUE constraint decide
InsertAppointment(row) ==
    /\ Len(appointments) < MaxAppointments
    /\ appointments' =
          IF /\ \E p \in profilesTable : p.id = row.patient_id
             /\ \E d \in doctorsTable : d.id = row.doctor_id
             /\ ~UniqueViolation(appointments, row)
          THEN Append(appointments, [row EXCEPT !.id = FreshId(appointments)])
          ELSE appointments
    /\ appointments' # appointments
    /\ UNCHANGED <<doctor_schedules, now, book, plist, dash, lastUpdate,
                   profilesTable, doctorsTable, dlist, route, login>>

CascadeNext ==
    \/ \E id \in Users : DeleteProfile(id)
    \/ \E id \in DoctorIds : DeleteDoctor(id)
    \/ \E patient_id \in Users, doctor_id \in DoctorIds, date \in 0..MaxAhead :
          InsertAppointment([ id |-> 0, patient_id |-> patient_id, doctor_id |-> doctor_id,
                              appointment_date |-> date, appointment_time |-> Time(9, 0),
                              status |-> "pending" ])

CascadeSpec == StatusInit /\ [][CascadeNext]_vars

---------------------------------------------------------------------------
(* Routing (App) and ProtectedRoute *)

\* the routes of App that are wrapped in ProtectedRoute, with their requiredRole
ProtectedPaths == {"/doctors", "/book-appointment/:doctorId", "/appointments",
                   "/doctor/dashboard"}

RequiredRole(path) == IF path = "/doctor/dashboard" THEN "doctor" ELSE "patient"

\* a guard that does not compare the role
MutProtectedRouteAnyRole(auth, requiredRole) ==
    IF auth.loading THEN "LoadingSpinner"
    ELSE IF auth.user = "null" \/ auth.profile = NullProfile THEN "LoginForm"
    ELSE "children"

\* what ProtectedRoute returns
ProtectedRoute(auth, requiredRole) ==
    IF auth.loading THEN "LoadingSpinner"
    ELSE IF auth.user = "null" \/ auth.profile = NullProfile THEN "LoginForm"
    ELSE IF requiredRole # "undefined" /\ auth.profile.role # requiredRole
         THEN "Access Denied"
    ELSE "children"

\* what the session of user u shows on the route it is on
Rendered(u) ==
    IF route[u].path \in ProtectedPaths
    THEN ProtectedRoute(route[u], RequiredRole(route[u].path))
    ELSE "none"

\* the browser sessions followed through the routes: one of each role
RouteUsers == {"p1", "u1", "a1"}

\* the session goes to a protected route
Navigate(u, path) ==
    /\ route' = [route EXCEPT ![u].path = path, ![u].trail = {}]
    /\ UNCHANGED <<appointments, doctor_schedules, now, book, plist, dash, lastUpdate,
                   profilesTable, doctorsTable, dlist, login>>

\* useAuth() gives new values: loading or not, signed in or not, profile row loaded or not
AuthChange(u, loading, signedIn, loaded) ==
    /\ route' = [route EXCEPT
                   ![u].loading = loading,
                   ![u].user = IF signedIn THEN u ELSE "null",
                   ![u].profile = IF loaded /\ \E p \in profilesTable : p.id = u
                                  THEN CHOOSE p \in profilesTable : p.id = u
                                  ELSE NullProfile]
    /\ route' # route
    /\ UNCHANGED <<appointments, doctor_schedules, now, book, plist, dash, lastUpdate,
                   profilesTable, doctorsTable, dlist, login>>

RouteNext ==
    \/ \E u \in RouteUsers, path \in ProtectedPaths : Navigate(u, path)
    \/ \E u \in RouteUsers, loading, signedIn, loaded \in BOOLEAN :
          AuthChange(u, loading, signedIn, loaded)

RouteSpec == Init /\ [][RouteNext]_vars

---------------------------------------------------------------------------
(* Route resolution of signed-in sessions: the Navigate elements of Home and of
   the catch-all route *)

\* the paths a session goes to: the routes of App, the path Home sends an admin to,
\* and a path no route names
Paths == ProtectedPaths \cup {"/", "/admin/dashboard", "/settings"}

\* the path Home navigates to, "none" when it renders a screen
Home(auth) ==
    IF auth.loading THEN "none"
    ELSE IF auth.profile = NullProfile THEN "none"
    ELSE IF auth.profile.role = "patient" THEN "/doctors"
    ELSE IF auth.profile.role = "doctor" THEN "/doctor/dashboard"
    ELSE IF auth.profile.role = "admin" THEN "/admin/dashboard"
    ELSE "/doctors"

\* the path the element of the matched route navigates to, "none" when it renders a screen
Redirect(u) ==
    IF route[u].path = "/" THEN Home(route[u])
    ELSE IF route[u].path \in ProtectedPaths THEN "none"
    ELSE "/"

\* the router follows a Navigate element; a resolution that has come back to a path
\* it left is not followed further
FollowNavigate(u) ==
    /\ Redirect(u) # "none"
    /\ route[u].path \notin route[u].trail
    /\ route' = [route EXCEPT ![u].path = Redirect(u), ![u].trail = @ \cup {route[u].path}]
    /\ UNCHANGED <<appointments, doctor_schedules, now, book, plist, dash, lastUpdate,
                   profilesTable, doctorsTable, dlist, login>>

\* every session signed in with its profile loaded, on the route "/"
ResolveInit ==
    /\ appointments = <<>>
    /\ doctor_schedules = SeedSchedules
    /\ now = 8 * SecondsPerHour
    /\ book = [s \in Patients |-> ClosedForm]
    /\ plist = [s \in Patients |-> NoPatientList]
    /\ dash = [u \in DoctorUsers |-> NoDashboard]
    /\ lastUpdate = NoUpdate
    /\ profilesTable = profiles
    /\ doctorsTable = doctors
    /\ dlist = [s \in Patients |-> NoDirectory]
    /\ route = [u \in Users |->
                  IF u \in RouteUsers
                  THEN [path |-> "/", loading |-> FALSE, user |-> u,
                        profile |-> CHOOSE p \in profiles : p.id = u, trail |-> {}]
                  ELSE NoRoute]
    /\ login = NoLogin

ResolveNext ==
    \/ \E u \in RouteUsers, path \in Paths : Navigate(u, path)
    \/ \E u \in RouteUsers : FollowNavigate(u)

ResolveSpec == ResolveInit /\ [][ResolveNext]_vars

---------------------------------------------------------------------------
(* The sign-in / sign-up form (LoginForm) *)

\* the values the fields named in the form can be given: the options of the role
\* select, and a text for the email input
FieldValues(name) == IF name = "role" THEN {"patient", "doctor"} ELSE {"", "a"}

\* the link under the title: setIsLogin(!isLogin), setError('')
ToggleMode ==
    /\ login' = [login EXCEPT !.isLogin = ~@, !.error = ""]
    /\ UNCHANGED <<appointments, doctor_schedules, now, book, plist, dash, lastUpdate,
                   profilesTable, doctorsTable, dlist, route>>

\* handleChange of the field with the given name; the role select is rendered in
\* sign-up mode only
HandleChange(name, value) ==
    /\ name = "role" => ~login.isLogin
    /\ value \in FieldValues(name)
    /\ login' = IF name = "role"
                THEN [login EXCEPT !.role = value, !.roleEdited = TRUE]
                ELSE [login EXCEPT !.email = value]
    /\ UNCHANGED <<appointments, doctor_schedules, now, book, plist, dash, lastUpdate,
                   profilesTable, doctorsTable, dlist, route>>

\* the submit button is disabled={loading}
SubmitDisabled == login.loading

\* handleSubmit up to its await
HandleSubmit ==
    /\ ~SubmitDisabled
    /\ login' = [login EXCEPT
                   !.loading = TRUE,
                   !.error = "",
                   !.request = IF login.isLogin
                               THEN [kind |-> "signIn", role |-> "none",
                                     roleEdited |-> login.roleEdited, pending |-> TRUE]
                               ELSE [kind |-> "signUp", role |-> login.role,
                                     roleEdited |-> login.roleEdited, pending |-> TRUE]]
    /\ UNCHANGED <<appointments, doctor_schedules, now, book, plist, dash, lastUpdate,
                   profilesTable, doctorsTable, dlist, route>>

\* the message handleSubmit sets for an outcome of the awaited call
Message(kind, outcome) ==
    IF outcome = "error" THEN "error.message"
    ELSE IF outcome = "thrown" THEN "An unexpected error occurred"
    ELSE IF kind = "signUp" THEN "Account created!"
    ELSE ""

\* a handler that resets loading after the awaited call instead of in a finally block
MutAuthReplyNoFinally(outcome) ==
    /\ login.request.pending
    /\ login' = [login EXCEPT
                   !.loading = IF outcome = "thrown" THEN @ ELSE FALSE,
                   !.error = IF Message(login.request.kind, outcome) = "" THEN @
                             ELSE Message(login.request.kind, outcome),
                   !.request.pending = FALSE]
    /\ UNCHANGED <<appointments, doctor_schedules, now, book, plist, dash, lastUpdate,
                   profilesTable, doctorsTable, dlist, route>>

\* the awaited signIn / signUp returns no error, returns an error, or throws, and
\* handleSubmit runs to its end
AuthReply(outcome) ==
    /\ login.request.pending
    /\ login' = [login EXCEPT
                   !.loading = FALSE,
                   !.error = IF Message(login.request.kind, outcome) = "" THEN @
                             ELSE Message(login.request.kind, outcome),
                   !.request.pending = FALSE]
    /\ UNCHANGED <<appointments, doctor_schedules, now, book, plist, dash, lastUpdate,
                   profilesTable, doctorsTable, dlist, route>>

LoginNext ==
    \/ ToggleMode
    \/ \E name \in {"email", "role"}, value \in {"", "a", "patient", "doctor"} :
          HandleChange(name, value)
    \/ HandleSubmit
    \/ \E outcome \in {"ok", "error", "thrown"} : AuthReply(outcome)

LoginSpec == Init /\ [][LoginNext]_vars

---------------------------------------------------------------------------
(* C1: when two patient sessions have a booking in flight at once for the same
   (doctor, date, time), no row being stored for it when either was issued, and
   the storage layer serves both inserts, exactly one of them is stored and
   navigates, and the other session ends with the failure alert. *)

Served(s) == book[s].request # NoRequest /\ ~book[s].submitting

Raced(s, t) ==
    /\ s # t
    /\ Served(s) /\ Served(t)
    /\ book[s].request.doctor_id = book[t].request.doctor_id
    /\ book[s].request.appointment_date = book[t].request.appointment_date
    /\ book[s].request.appointment_time = book[t].request.appointment_time
    /\ book[s].issuedFree /\ book[t].issuedFree
    /\ book[s].error # "network" /\ book[t].error # "network"

RowsFor(req) ==
    {i \in 1..Len(appointments) :
        /\ appointments[i].doctor_id = req.doctor_id
        /\ appointments[i].appointment_date = req.appointment_date
        /\ appointments[i].appointment_time = req.appointment_time}

C1_ExactlyOneBookingWins ==
    \A s, t \in Patients :
        Raced(s, t) =>
            /\ {book[s].outcome, book[t].outcome} = {"navigated", "alert"}
            /\ Cardinality(RowsFor(book[s].request)) = 1
            /\ \A i \in RowsFor(book[s].request) :
                   /\ book[appointments[i].patient_id].outcome = "navigated"
                   /\ appointments[i].patient_id \in {s, t}

C1_Witness == \E s, t \in Patients : Raced(s, t)

(* C2: the appointments table never holds two rows with the same doctor_id,
   appointment_date and appointment_time, whatever their status. *)
C2_OneRowPerSlot ==
    \A i, j \in 1..Len(appointments) :
        i # j => \/ appointments[i].doctor_id # appointments[j].doctor_id
                 \/ appointments[i].appointment_date # appointments[j].appointment_date
                 \/ appointments[i].appointment_time # appointments[j].appointment_time

\* two rows stored, one no longer pending, and a later booking of a taken slot refused
C2_Witness ==
    /\ Len(appointments) = 2
    /\ \E i \in 1..Len(appointments) : appointments[i].status \in {"cancelled", "completed"}
    /\ \E s \in Patients : Served(s) /\ book[s].error = "unique"

(* C4: a call of generateTimeSlots by any patient session never sets available=true
   on the time of an appointment that is stored, at the moment the call is served,
   for that doctor and date with status pending or confirmed, whoever holds it. *)

\* the step in which the call of generateTimeSlots that captured date is served
GeneratedFor(s, date) ==
    /\ Mounted(s)
    /\ date \in book[s].slotCalls
    /\ book'[s].slotCalls = book[s].slotCalls \ {date}
    /\ book'[s].doctor = book[s].doctor

Holds(i, doctor_id, dateStr, hm) ==
    /\ appointments[i].doctor_id = doctor_id
    /\ appointments[i].appointment_date = dateStr
    /\ appointments[i].appointment_time = <<hm[1], hm[2], 0>>
    /\ appointments[i].status \in {"pending", "confirmed"}

C4_BookedSlotNeverOffered ==
    [][ \A s \in Patients : \A date \in book[s].slotCalls :
           GeneratedFor(s, date) =>
              \A k \in 1..Len(book'[s].timeSlots) :
                 book'[s].timeSlots[k].available =>
                    ~ \E i \in 1..Len(appointments) :
                         Holds(i, book[s].doctor, FormatDate(date),
                               book'[s].timeSlots[k].time) ]_vars

(* C5: a query of the appointments table returns to a caller with role patient
   only rows whose patient_id is the caller, to a caller with role doctor only
   rows whose doctor_id is the caller's own doctor record, and to an admin every
   row. *)

RoleOf(uid) == (CHOOSE p \in profiles : p.id = uid).role

C5_ReadGating ==
    \A uid \in Users :
        LET got == Range(SelectAppointments(appointments, uid))
        IN  /\ RoleOf(uid) = "patient" => \A r \in got : r.patient_id = uid
            /\ RoleOf(uid) = "doctor" =>
                  \A r \in got : \E d \in doctors : d.user_id = uid /\ d.id = r.doctor_id
            /\ RoleOf(uid) = "admin" => got = Range(appointments)
            /\ got \subseteq Range(appointments)

\* rows of both patients stored: each patient is returned its own row only, the
\* doctor of the rows both, the other doctor none, the admin both
C5_Witness ==
    /\ {appointments[i].patient_id : i \in 1..Len(appointments)} = Patients
    /\ \A s \in Patients :
          Cardinality(Range(SelectAppointments(appointments, s))) = 1
    /\ \E u \in DoctorUsers : Range(SelectAppointments(appointments, u)) = {}
    /\ \E u \in DoctorUsers : Cardinality(Range(SelectAppointments(appointments, u))) = 2
    /\ \A a \in Admins : Cardinality(Range(SelectAppointments(appointments, a))) = 2

(* C3: no operation of the screens (the dashboard's Confirm, Cancel and Mark
   Complete, the patient list's Cancel) changes the stored status of an
   appointment that is cancelled or completed. *)
C3_TerminalStatusKept ==
    [][ \A i \in 1..Len(appointments) :
           appointments[i].status \in {"cancelled", "completed"} =>
               appointments'[i].status = appointments[i].status ]_vars

(* C6: every change of a stored status made by the screens is pending to
   confirmed by the doctor of the row, pending to cancelled by the doctor or the
   patient of the row, or confirmed to completed by the doctor of the row. *)

DoctorOf(uid, row) == \E d \in doctors : d.id = row.doctor_id /\ d.user_id = uid

C6_OnlySanctionedTransitions ==
    [][ \A i \in 1..Len(appointments) :
           appointments'[i].status # appointments[i].status =>
              LET from == appointments[i].status
                  to == appointments'[i].status
                  by == lastUpdate'.uid
              IN  \/ from = "pending" /\ to = "confirmed" /\ DoctorOf(by, appointments[i])
                  \/ /\ from = "pending" /\ to = "cancelled"
                     /\ (DoctorOf(by, appointments[i]) \/ by = appointments[i].patient_id)
                  \/ from = "confirmed" /\ to = "completed" /\ DoctorOf(by, appointments[i])
      ]_vars

(* C7: the storage layer accepts an update issued with a patient's identity on
   the patient's own appointment only when it sets a pending appointment to
   cancelled. *)
C7_PatientMayOnlyCancelPending ==
    [][ \A i \in 1..Len(appointments) :
           (appointments'[i] # appointments[i] /\ lastUpdate'.uid = appointments[i].patient_id)
              => (appointments[i].status = "pending" /\ appointments'[i].status = "cancelled")
      ]_vars

(* C8: an update changes an appointment row only when the caller is the row's
   patient, the user of the row's doctor or an admin; the update of any other
   caller leaves the table as it was. *)

MayUpdate(uid, row) ==
    \/ uid = row.patient_id
    \/ DoctorOf(uid, row)
    \/ RoleOf(uid) = "admin"

C8_UpdateGating ==
    [][ /\ Len(appointments') = Len(appointments)
        /\ \A i \in 1..Len(appointments) :
              appointments'[i] # appointments[i] =>
                  lastUpdate'.id = i /\ MayUpdate(lastUpdate'.uid, appointments[i])
        /\ ~MayUpdate(lastUpdate'.uid, appointments[lastUpdate'.id]) =>
              appointments' = appointments ]_vars

\* the last request was one patient's on the other patient's appointment, or one
\* doctor's on the other doctor's, and the row does not have the status it asked for
C8_Witness ==
    /\ lastUpdate.via = "api"
    /\ RoleOf(lastUpdate.uid) \in {"patient", "doctor"}
    /\ ~MayUpdate(lastUpdate.uid, appointments[lastUpdate.id])
    /\ appointments[lastUpdate.id].status # lastUpdate.status

(* C9: for each available schedule entry of the doctor on the selected weekday
   generateTimeSlots emits exactly the times start + 30 k minutes that are
   strictly before the entry's end, so none at the end and none for an entry
   whose end is not after its start; and for one entry 09:00-10:00 with one
   confirmed appointment at 09:30 on a future date the result is 09:00 available,
   09:30 unavailable, and no 10:00. *)

\* the session's generateTimeSlots call has been answered without an error
Generated(s) == Mounted(s) /\ book[s].slotCalls = {} /\ ~book[s].slotsError

EntriesOf(s) ==
    {e \in doctor_schedules : /\ e.doctor_id = book[s].doctor
                              /\ e.day_of_week = GetDay(book[s].selectedDate)
                              /\ e.is_available}

StepsPerDay == SecondsPerDay \div (SlotMinutes * 60)

GridOf(e) ==
    { FormatHHmm(ParseTime(e.start_time) + k * SlotMinutes * 60) :
        k \in {j \in 0..StepsPerDay :
                 ParseTime(e.start_time) + j * SlotMinutes * 60 < ParseTime(e.end_time)} }

C9_GridOnly ==
    \A s \in Patients :
        Generated(s) =>
            \A t \in {slot.time : slot \in Range(book[s].timeSlots)}
                      \cup UNION {GridOf(e) : e \in EntriesOf(s)} :
                Cardinality({k \in 1..Len(book[s].timeSlots) : book[s].timeSlots[k].time = t})
                  = Cardinality({e \in EntriesOf(s) : t \in GridOf(e)})

ExampleCase(s) ==
    /\ Generated(s)
    /\ \E e \in EntriesOf(s) :
          EntriesOf(s) = {e} /\ e.start_time = Time(9, 0) /\ e.end_time = Time(10, 0)
    /\ FormatDate(book[s].selectedDate) > FormatDate(now)
    /\ \E i \in 1..Len(appointments) :
          /\ appointments[i].doctor_id = book[s].doctor
          /\ appointments[i].appointment_date = FormatDate(book[s].selectedDate)
          /\ appointments[i].appointment_time = Time(9, 30)
          /\ appointments[i].status = "confirmed"
          /\ \A j \in 1..Len(appointments) :
                (/\ appointments[j].doctor_id = book[s].doctor
                 /\ appointments[j].appointment_date = FormatDate(book[s].selectedDate)) => j = i

C9_SlotGrid ==
    /\ C9_GridOnly
    /\ \A s \in Patients :
          ExampleCase(s) =>
              book[s].timeSlots = << [time |-> <<9, 0>>, available |-> TRUE],
                                     [time |-> <<9, 30>>, available |-> FALSE] >>

(* C10: a slot generateTimeSlots returns is unavailable exactly when its time is
   among the times of the pending and confirmed appointments the call fetched
   for the doctor and the date, or the date is today and the slot's time is
   earlier than the current moment. *)

\* the times the appointment query answers a patient session with: rows of its own
FetchedTimes(s) ==
    { appointments[i].appointment_time :
        i \in {j \in 1..Len(appointments) :
                 /\ appointments[j].patient_id = s
                 /\ appointments[j].doctor_id = book[s].doctor
                 /\ appointments[j].appointment_date = FormatDate(book[s].selectedDate)
                 /\ appointments[j].status \in {"pending", "confirmed"}} }

SlotBooked(s, slot) == <<slot.time[1], slot.time[2], 0>> \in FetchedTimes(s)

SlotEarlier(s, slot) ==
    /\ FormatDate(book[s].selectedDate) = FormatDate(now)
    /\ FormatDate(now) * SecondsPerDay + slot.time[1] * SecondsPerHour + slot.time[2] * 60 < now

C10_AvailableFlag ==
    \A s \in Patients :
        Generated(s) =>
            \A k \in 1..Len(book[s].timeSlots) :
                LET slot == book[s].timeSlots[k]
                IN  slot.available = ~(SlotBooked(s, slot) \/ SlotEarlier(s, slot))

\* one answer holds a slot that is only booked, one that is only earlier than now and
\* one that is neither
C10_Witness ==
    \E s \in Patients :
        /\ Generated(s)
        /\ \E a, b, c \in Range(book[s].timeSlots) :
              /\ SlotBooked(s, a) /\ ~SlotEarlier(s, a) /\ ~a.available
              /\ ~SlotBooked(s, b) /\ SlotEarlier(s, b) /\ ~b.available
              /\ ~SlotBooked(s, c) /\ ~SlotEarlier(s, c) /\ c.available

(* C11: when the doctor has no schedule entry with is_available = true on the
   weekday of the selected date, generateTimeSlots sets the slot list to the
   empty sequence; it also sets it to the empty sequence when the schedule query
   or the appointment query fails. *)

\* the session's generateTimeSlots call has been answered
Answered(s) == Mounted(s) /\ book[s].slotCalls = {}

C11_EmptySlotList ==
    \A s \in Patients :
        Answered(s) =>
            /\ book[s].slotsError => book[s].timeSlots = <<>>
            /\ EntriesOf(s) = {} => book[s].timeSlots = <<>>

\* no query failed, the doctor has entries but none available on the weekday of the
\* date (an unavailable one is there), appointments are stored, and the list is empty
C11_Witness ==
    \E s \in Patients :
        /\ Answered(s) /\ ~book[s].slotsError
        /\ EntriesOf(s) = {}
        /\ \E e \in doctor_schedules :
              /\ e.doctor_id = book[s].doctor
              /\ e.day_of_week = GetDay(book[s].selectedDate)
              /\ ~e.is_available
              /\ ParseTime(e.start_time) < ParseTime(e.end_time)
        /\ \E e \in doctor_schedules :
              /\ e.doctor_id = book[s].doctor
              /\ e.day_of_week # GetDay(book[s].selectedDate)
              /\ e.is_available
        /\ book[s].timeSlots = <<>>

(* C12: the slot sequence generateTimeSlots produces is in ascending time order,
   for every set of schedule entries of the doctor on the weekday and every
   order in which the schedule query returns them. *)

HHmmMinutes(hm) == hm[1] * 60 + hm[2]

C12_AscendingOrder ==
    \A s \in Patients :
        Generated(s) =>
            \A i, j \in 1..Len(book[s].timeSlots) :
                i < j => HHmmMinutes(book[s].timeSlots[i].time)
                            <= HHmmMinutes(book[s].timeSlots[j].time)

(* C13: generateTimeSlots does not deduplicate: a time of day appears in the slot
   sequence once for each available entry whose grid holds it, so no time is
   repeated when no two entries share a grid time, and a time is repeated when
   two entries of the doctor and weekday overlap on the 30-minute grid. *)

TimesAt(s, t) == {k \in 1..Len(book[s].timeSlots) : book[s].timeSlots[k].time = t}

SharedGrid(s) ==
    UNION { GridOf(x[1]) \cap GridOf(x[2]) :
              x \in {y \in EntriesOf(s) \X EntriesOf(s) : y[1] # y[2]} }

C13_NoDeduplication ==
    \A s \in Patients :
        Generated(s) =>
            /\ \A e \in EntriesOf(s) : \A t \in GridOf(e) :
                  Cardinality(TimesAt(s, t)) = Cardinality({x \in EntriesOf(s) : t \in GridOf(x)})
            /\ SharedGrid(s) = {} =>
                  \A i, j \in 1..Len(book[s].timeSlots) :
                      i # j => book[s].timeSlots[i].time # book[s].timeSlots[j].time
            /\ \A t \in SharedGrid(s) : Cardinality(TimesAt(s, t)) >= 2

\* two available entries of the weekday overlap and the answer repeats their common times
C13_Witness ==
    \E s \in Patients :
        /\ Generated(s)
        /\ SharedGrid(s) # {}
        /\ \A t \in SharedGrid(s) : Cardinality(TimesAt(s, t)) = 2
        /\ \E k \in 1..Len(book[s].timeSlots) : Cardinality(TimesAt(s, book[s].timeSlots[k].time)) = 1

(* C14: every appointment row the booking form creates has status pending, the
   signed-in user who pressed Book as patient_id, and the doctor, date and time
   the form had selected when Book was pressed; a successful booking adds
   exactly one row and changes no row that was there. *)

\* the step in which session s presses Book
Issues(s) == ~book[s].submitting /\ book'[s].submitting

\* the step in which the insert of session s is answered
Answers(s) == book[s].submitting /\ ~book'[s].submitting

C14_BookedRowContents ==
    [][ /\ \A s \in Patients :
              Issues(s) =>
                  /\ book'[s].request.status = "pending"
                  /\ book'[s].request.patient_id = s
                  /\ book'[s].request.doctor_id = book[s].doctor
                  /\ book'[s].request.appointment_date = book[s].selectedDate \div SecondsPerDay
                  /\ book'[s].request.appointment_time =
                        <<book[s].selectedTime[1], book[s].selectedTime[2], 0>>
        /\ Len(appointments') # Len(appointments) =>
              /\ Len(appointments') = Len(appointments) + 1
              /\ \A i \in 1..Len(appointments) : appointments'[i] = appointments[i]
              /\ \E s \in Patients :
                    /\ Answers(s)
                    /\ book'[s].outcome = "navigated"
                    /\ LET row == appointments'[Len(appointments')]
                           req == book[s].request
                       IN  /\ row.status = "pending" /\ req.status = "pending"
                           /\ row.patient_id = s /\ req.patient_id = s
                           /\ row.doctor_id = req.doctor_id
                           /\ row.appointment_date = req.appointment_date
                           /\ row.appointment_time = req.appointment_time
      ]_vars

\* both patients have booked, one of them a date that is not today, and both rows are
\* stored as requested
C14_Witness ==
    /\ Len(appointments) = 2
    /\ {appointments[i].patient_id : i \in 1..2} = Patients
    /\ \E i \in 1..2 : appointments[i].appointment_date # FormatDate(now)
    /\ \A i \in 1..2 :
          LET s == appointments[i].patient_id
          IN  /\ book[s].outcome = "navigated"
              /\ book[s].request = [appointments[i] EXCEPT !.id = 0]

(* C15: when the booking insert is rejected (uniqueness violation, policy denial
   or transport failure) no row is created, no further insert is issued, the
   session shows the failure alert and stays on the booking screen, and the
   submitting flag is false again. *)
C15_RejectedBooking ==
    [][ \A s \in Patients :
           (Answers(s) /\ book'[s].error # "none") =>
               /\ appointments' = appointments
               /\ book'[s].outcome = "alert"
               /\ book'[s].doctor = book[s].doctor
               /\ book'[s].request = book[s].request
               /\ \A t \in Patients : book'[t].submitting => book[t].submitting
      ]_vars

\* one session was refused by the uniqueness constraint and the other lost its insert in
\* transport: both show the alert on the form they were on, and only one row is stored
C15_Witness ==
    /\ \E s, t \in Patients :
          /\ s # t
          /\ Served(s) /\ book[s].error = "unique" /\ book[s].outcome = "alert"
          /\ Served(t) /\ book[t].error = "network" /\ book[t].outcome = "alert"
          /\ Mounted(s) /\ Mounted(t)
          /\ ~book[s].submitting /\ ~book[t].submitting
    /\ Len(appointments) = 1

(* C16: every doctor shown in a patient's directory had is_verified = true and
   is_available = true in the doctors table when the list was fetched, and the
   search and specialization filters only remove doctors from the fetched list. *)
C16_DirectoryShowsBookable ==
    [][ \A s \in Patients :
           /\ dlist'[s].doctors # dlist[s].doctors =>
                 \A d \in dlist'[s].doctors :
                     d \in doctorsTable /\ d.is_verified /\ d.is_available
           /\ FilteredDoctors(s)' \subseteq dlist'[s].doctors
           /\ \A d \in FilteredDoctors(s)' : d.is_verified /\ d.is_available
           /\ dlist'[s].doctors = dlist[s].doctors =>
                 FilteredDoctors(s)' \subseteq dlist[s].doctors
      ]_vars

\* a session fetched both doctors and its filters show only one of them, while the
\* table now holds a doctor that is not available
C16_Witness ==
    \E s \in Patients :
        /\ Cardinality(dlist[s].doctors) = 2
        /\ Cardinality(FilteredDoctors(s)) = 1
        /\ dlist[s].searchTerm # <<>>
        /\ \E r \in doctorsTable : r.is_verified /\ ~r.is_available

(* C17: in every state each doctor row's user_id is the id of a profile row, each
   schedule entry's doctor_id is the id of a doctor row, and each appointment's
   patient_id and doctor_id are the ids of a profile row and of a doctor row:
   deleting a profile leaves no doctor, schedule entry or appointment that
   refers to it or to its doctor. *)

ProfileIds == {p.id : p \in profilesTable}

DoctorRowIds == {d.id : d \in doctorsTable}

C17_ReferentialIntegrity ==
    /\ \A d \in doctorsTable : d.user_id \in ProfileIds
    /\ \A e \in doctor_schedules : e.doctor_id \in DoctorRowIds
    /\ \A i \in 1..Len(appointments) :
          /\ appointments[i].patient_id \in ProfileIds
          /\ appointments[i].doctor_id \in DoctorRowIds

\* the profile of a doctor and the profile of a patient have been deleted, and the
\* other doctor's schedule and an appointment with the other doctor are still stored
C17_Witness ==
    /\ \E u \in DoctorUsers : u \notin ProfileIds
    /\ \E s \in Patients : s \notin ProfileIds
    /\ Cardinality(DoctorRowIds) = 1
    /\ doctor_schedules # {}
    /\ Len(appointments) >= 1

(* C18: ProtectedRoute renders its children only when auth loading is false, user
   and profile are present and the profile's role is the route's requiredRole,
   and otherwise the spinner, the login form or Access Denied; so the patient
   screens are rendered only for role patient, the doctor dashboard only for
   role doctor, and an admin is denied on all of them. *)

PatientPaths == {"/doctors", "/book-appointment/:doctorId", "/appointments"}

C18_RouteGating ==
    \A u \in Users :
        route[u].path \in ProtectedPaths =>
            /\ Rendered(u) = "children" <=>
                  /\ ~route[u].loading
                  /\ route[u].user # "null"
                  /\ route[u].profile.id # "null"
                  /\ RoleOf(u) = (IF route[u].path \in PatientPaths THEN "patient" ELSE "doctor")
            /\ Rendered(u) \in {"children", "LoadingSpinner", "LoginForm", "Access Denied"}
            /\ (Rendered(u) = "children" /\ route[u].path \in PatientPaths) => u \in Patients
            /\ (Rendered(u) = "children" /\ route[u].path = "/doctor/dashboard") => u \in DoctorUsers
            /\ u \in Admins => Rendered(u) # "children"
            /\ (u \in Admins /\ ~route[u].loading /\ route[u].user # "null"
                  /\ route[u].profile.id # "null") => Rendered(u) = "Access Denied"

\* a patient sees a patient screen, a doctor on a patient route and an admin on the
\* dashboard route, both signed in with their profile loaded, see Access Denied
C18_Witness ==
    /\ route["p1"].path = "/appointments" /\ Rendered("p1") = "children"
    /\ route["u1"].path = "/doctors" /\ Rendered("u1") = "Access Denied"
    /\ route["a1"].path = "/doctor/dashboard" /\ Rendered("a1") = "Access Denied"

(* C19: for a displayed appointment the doctor dashboard offers Confirm and Cancel
   only when the displayed status is pending, Mark Complete only when it is
   confirmed, and nothing that changes the status when it is cancelled or
   completed; Cancel is never offered for a confirmed appointment. *)

\* the step in which a screen asks for a status update
Asks(via) == lastUpdate' # lastUpdate /\ lastUpdate'.via = via

C19_DashboardButtons ==
    [][ /\ \A u \in DoctorUsers : \A k \in 1..Len(dash[u].appointments) :
              LET displayed == dash[u].appointments[k].status
              IN  /\ displayed = "pending" => Offered(displayed) = {"confirmed", "cancelled"}
                  /\ displayed = "confirmed" => Offered(displayed) = {"completed"}
                  /\ displayed \in {"cancelled", "completed"} => Offered(displayed) = {}
        /\ Asks("dashboard") =>
              /\ \E k \in 1..Len(dash[lastUpdate'.uid].appointments) :
                    /\ dash[lastUpdate'.uid].appointments[k].id = lastUpdate'.id
                    /\ dash[lastUpdate'.uid].appointments[k].status = lastUpdate'.shown
              /\ lastUpdate'.status \in {"confirmed", "cancelled"} => lastUpdate'.shown = "pending"
              /\ lastUpdate'.status = "completed" => lastUpdate'.shown = "confirmed"
              /\ lastUpdate'.status # "pending"
              /\ lastUpdate'.shown \notin {"cancelled", "completed"}
      ]_vars

\* the dashboard of a doctor displays a confirmed and a cancelled appointment, and the
\* last update was that doctor's Mark Complete on a row displayed as confirmed
C19_Witness ==
    \E u \in DoctorUsers :
        /\ \E k \in 1..Len(dash[u].appointments) : dash[u].appointments[k].status = "confirmed"
        /\ \E k \in 1..Len(dash[u].appointments) : dash[u].appointments[k].status = "cancelled"
        /\ lastUpdate.via = "dashboard" /\ lastUpdate.uid = u
        /\ lastUpdate.status = "completed" /\ lastUpdate.shown = "confirmed"

(* C20: the patient appointment list offers Cancel only for an appointment it
   displays as pending and whose date and time are not in the past; the status
   a patient screen asks for is always cancelled; and cancelAppointment sends
   no update when the confirmation prompt is declined. *)
C20_PatientCancelOnly ==
    [][ Asks("patientList") =>
           /\ lastUpdate'.uid \in Patients
           /\ \E k \in 1..Len(plist[lastUpdate'.uid].appointments) :
                 LET row == plist[lastUpdate'.uid].appointments[k]
                 IN  /\ row.id = lastUpdate'.id
                     /\ row.status = "pending"
                     /\ row.appointment_date * SecondsPerDay
                           + row.appointment_time[1] * SecondsPerHour
                           + row.appointment_time[2] * 60 >= now
           /\ lastUpdate'.shown = "pending"
           /\ lastUpdate'.status = "cancelled"
           /\ ~lastUpdate'.sent => appointments' = appointments
           /\ \A i \in 1..Len(appointments) :
                 appointments'[i] # appointments[i] =>
                     /\ i = lastUpdate'.id
                     /\ appointments'[i] = [appointments[i] EXCEPT !.status = "cancelled"]
      ]_vars

\* a patient declined the prompt for an appointment that is still stored pending, and
\* the list of that patient displays a pending appointment that is in the past
C20_Witness ==
    /\ lastUpdate.via = "patientList" /\ ~lastUpdate.sent
    /\ appointments[lastUpdate.id].status = "pending"
    /\ \E k \in 1..Len(plist[lastUpdate.uid].appointments) :
          /\ plist[lastUpdate.uid].appointments[k].status = "pending"
          /\ IsPast(plist[lastUpdate.uid].appointments[k], now)

(* C21: when a status update sent by the dashboard or by the patient list is
   rejected, the stored appointments and the displayed list stay as they were
   and the failure alert is shown; when it is accepted no alert is shown, and
   once the re-fetch that follows is answered every displayed appointment
   carries the status stored at that moment; when that re-fetch is not
   answered the list stays as it was. *)

\* the list a screen displays to a user, before and after a step
ListOf(via, uid) == IF via = "dashboard" THEN dash[uid].appointments ELSE plist[uid].appointments

ListAfter(via, uid) == IF via = "dashboard" THEN dash'[uid].appointments ELSE plist'[uid].appointments

\* the displayed rows of appointment id carry its stored status
ShowsStored(list, table, id) == \A k \in 1..Len(list) : list[k].id = id => list[k].status = table[id].status

C21_UpdateOutcome ==
    [][ \A via \in {"dashboard", "patientList"} :
          Asks(via) /\ lastUpdate'.sent =>
             LET uid == lastUpdate'.uid
             IN  /\ lastUpdate'.alert =>
                       /\ appointments' = appointments
                       /\ ListAfter(via, uid) = ListOf(via, uid)
                       /\ ~lastUpdate'.refetched
                 /\ ~lastUpdate'.alert /\ lastUpdate'.refetched =>
                       \A k \in 1..Len(ListAfter(via, uid)) :
                          ShowsStored(ListAfter(via, uid), appointments', ListAfter(via, uid)[k].id)
                 /\ ~lastUpdate'.alert /\ ~lastUpdate'.refetched =>
                       ListAfter(via, uid) = ListOf(via, uid)
      ]_vars

\* a doctor's update was accepted, the re-fetch was answered, and the dashboard
\* displays the appointment with the new status
C21_Witness ==
    /\ lastUpdate.via = "dashboard" /\ lastUpdate.sent
    /\ ~lastUpdate.alert /\ lastUpdate.refetched
    /\ lastUpdate.status # lastUpdate.shown
    /\ \E k \in 1..Len(dash[lastUpdate.uid].appointments) :
          /\ dash[lastUpdate.uid].appointments[k].id = lastUpdate.id
          /\ dash[lastUpdate.uid].appointments[k].status = lastUpdate.status

\* the statement as written: after every accepted update the displayed status of
\* the appointment equals the stored one
C21_DisplayedEqualsStored ==
    [][ \A via \in {"dashboard", "patientList"} :
          Asks(via) /\ lastUpdate'.sent =>
             LET uid == lastUpdate'.uid
             IN  /\ lastUpdate'.alert =>
                       /\ appointments' = appointments
                       /\ ListAfter(via, uid) = ListOf(via, uid)
                 /\ ~lastUpdate'.alert =>
                       ShowsStored(ListAfter(via, uid), appointments', lastUpdate'.id)
      ]_vars

(* C22: every slot generateTimeSlots returns as available for a doctor and a date
   can be booked: with nothing happening in between, the insert of a booking
   for that doctor, date and time by the same patient is accepted, also when an
   earlier appointment of the triple is stored as cancelled or completed. *)

\* the row a patient's form inserts for a doctor, a date and a slot time
RowFor(s, d, date, hm) == [id |-> 0, patient_id |-> s, doctor_id |-> d, appointment_date |-> FormatDate(date), appointment_time |-> WithSeconds(hm), status |-> "pending"]

C22_AvailableSlotBookable ==
    \A s \in Patients, d \in DoctorIds, i \in 0..MaxAhead :
       LET date == AddDays(now, i)
       IN  \A schedules \in Orderings(ScheduleQuery(doctor_schedules, s, d, GetDay(date))) :
              LET slots == GenerateTimeSlots(s, d, date, schedules, FALSE, FALSE)
              IN  \A k \in 1..Len(slots) :
                     slots[k].available =>
                        InsertError(appointments, s, RowFor(s, d, date, slots[k].time), TRUE) = "none"

(* C23: the booking form submits only a date and a time shown together as an
   available slot: whenever handleBookAppointment sends a request while no
   slot request is in flight, so that the list displayed is the one generated
   last for the selected date, the date sent is the selected date and the time
   sent is an available slot of that list. *)
C23_SubmitsShownSlot ==
    [][ \A s \in Patients :
          ~book[s].submitting /\ book'[s].submitting /\ book[s].slotCalls = {} =>
             /\ book'[s].request.appointment_date = FormatDate(book[s].selectedDate)
             /\ \E k \in 1..Len(book[s].timeSlots) :
                   /\ book[s].timeSlots[k].available
                   /\ WithSeconds(book[s].timeSlots[k].time) = book'[s].request.appointment_time
      ]_vars

(* C24: once every slot request of a booking session has been answered, the
   slot list displayed is the one generateTimeSlots produces for the date
   selected now, also when the date was changed while an earlier call was
   awaiting its queries and the answers came in another order than the calls. *)
C24_SlotsOfSelectedDate ==
    \A s \in Patients :
       Mounted(s) /\ book[s].slotCalls = {} =>
          \E scheduleError, appointmentError \in BOOLEAN :
             \E schedules \in Orderings(ScheduleQuery(doctor_schedules, s, book[s].doctor,
                                                      GetDay(book[s].selectedDate))) :
                book[s].timeSlots =
                   GenerateTimeSlots(s, book[s].doctor, book[s].selectedDate, schedules,
                                     scheduleError, appointmentError)

(* C25: after a patient has booked a doctor, a date and a time HH:mm, the stored
   appointment_time is HH:mm:00, and as long as the appointment is pending or
   confirmed generateTimeSlots by that patient for the doctor and the date
   returns the slot HH:mm, with available = false. *)
C25_BookedSlotRoundTrip ==
    \A n \in 1..Len(appointments) :
       LET r == appointments[n]
           hm == SubSeq(r.appointment_time, 1, 2)
       IN  /\ r.appointment_time = WithSeconds(hm)
           /\ r.status \in {"pending", "confirmed"} =>
                 \A i \in 0..MaxAhead :
                    FormatDate(AddDays(now, i)) = r.appointment_date =>
                       \A schedules \in Orderings(ScheduleQuery(doctor_schedules, r.patient_id,
                                                                r.doctor_id,
                                                                GetDay(AddDays(now, i)))) :
                          LET slots == GenerateTimeSlots(r.patient_id, r.doctor_id,
                                                         AddDays(now, i), schedules,
                                                         FALSE, FALSE)
                          IN  /\ \E k \in 1..Len(slots) : slots[k].time = hm
                              /\ \A k \in 1..Len(slots) :
                                    slots[k].time = hm => ~slots[k].available

(* C26: for a signed-in user of every role, route resolution settles on a route
   that renders a screen: following the Navigate elements of Home and of the
   catch-all route never brings a session back to a path it was redirected
   away from. *)
C26_NoRedirectCycle ==
    \A u \in RouteUsers :
       route[u].user # "null" /\ route[u].profile # NullProfile /\ ~route[u].loading =>
          route[u].path \notin route[u].trail

(* C27: the booking screen creates an appointment only for a doctor who is
   verified and available: whenever a booking is stored, the doctor row of the
   new appointment has is_verified and is_available set at that moment,
   whichever way the patient came to the booking route. *)
C27_BookedDoctorListed ==
    [][ Len(appointments') > Len(appointments) =>
           \E d \in doctorsTable :
              /\ d.id = appointments'[Len(appointments')].doctor_id
              /\ d.is_verified
              /\ d.is_available
      ]_vars

(* C28: at any moment the Upcoming and the Past tab of the patient appointment
   list split the fetched appointments: each appointment is shown under exactly
   one of the two; every cancelled or completed appointment and every
   appointment whose date and time have passed is shown under Past; and the
   All tab shows every fetched appointment. *)

\* the positions of the list shown under a tab at the instant clock
ShownAt(list, filter, clock) == {k \in 1..Len(list) : IsShown(list[k], filter, clock)}

C28_FilterPartition ==
    \A s \in Patients :
       LET list == plist[s].appointments
           upcoming == ShownAt(list, "upcoming", now)
           past == ShownAt(list, "past", now)
       IN  /\ upcoming \cup past = 1..Len(list)
           /\ upcoming \cap past = {}
           /\ \A k \in 1..Len(list) :
                 (list[k].status \in {"cancelled", "completed"} \/ IsPast(list[k], now))
                    => k \in past
           /\ FilteredAppointments(list, "all", now) = list
           /\ Len(FilteredAppointments(list, "upcoming", now))
                 + Len(FilteredAppointments(list, "past", now)) = Len(list)

\* the Past tab is selected and shows two appointments: a pending one whose time has
\* passed and a cancelled one whose time has not
C28_Witness ==
    \E s \in Patients :
       LET shown == FilteredAppointments(plist[s].appointments, plist[s].filter, now)
       IN  /\ plist[s].filter = "past"
           /\ \E k \in 1..Len(shown) : shown[k].status = "pending" /\ IsPast(shown[k], now)
           /\ \E k \in 1..Len(shown) : shown[k].status = "cancelled" /\ ~IsPast(shown[k], now)

(* C29: the statistics the doctor dashboard computes from one fetch satisfy
   todays_appointments <= this_week_appointments <= total_appointments and
   pending_appointments <= total_appointments; this_week counts the doctor's
   appointments dated from today through today plus 7 days inclusive, and
   every count includes the appointments of every status. *)

\* the number of stored appointments of the doctor of user u dated from..to
CountOf(table, u, from, to, statuses) == Cardinality({i \in 1..Len(table) : /\ (\E d \in doctors : d.user_id = u /\ table[i].doctor_id = d.id) /\ table[i].appointment_date \in from..to /\ table[i].status \in statuses})

C29_StatsOrdered ==
    [][ \A u \in DoctorUsers :
          dash'[u] # dash[u] =>
             LET st == dash'[u].stats
                 today == now \div SecondsPerDay
                 last == StatsToday + WeekDays + 1
             IN  /\ st.todays_appointments <= st.this_week_appointments
                 /\ st.this_week_appointments <= st.total_appointments
                 /\ st.pending_appointments <= st.total_appointments
                 /\ st.total_appointments = CountOf(appointments', u, 0, last, Statuses)
                 /\ st.pending_appointments = CountOf(appointments', u, 0, last, {"pending"})
                 /\ st.todays_appointments = CountOf(appointments', u, today, today, Statuses)
                 /\ st.this_week_appointments
                       = CountOf(appointments', u, today, today + 7, Statuses)
      ]_vars

\* a dashboard fetched over an appointment dated a week from today and one dated the
\* day after: none today, one this week, two in total, one of them pending
C29_Witness ==
    \E u \in DoctorUsers :
       /\ dash[u].stats = [total_appointments |-> 2, pending_appointments |-> 1,
                           todays_appointments |-> 0, this_week_appointments |-> 1]
       /\ CountOf(appointments, u, StatsToday + 7, StatsToday + 7, Statuses) = 1
       /\ CountOf(appointments, u, StatsToday + 8, StatsToday + 8, Statuses) = 1

(* C30: the sign-up form never asks for the admin role: the role passed to
   signUp is patient or doctor, and patient when the role field was never
   changed; the submit button is disabled while a sign-in or sign-up call is
   awaited and enabled again after every outcome, a thrown error included. *)
C30_SignUpRole ==
    /\ login.request.kind = "signUp" =>
          /\ login.request.role \in {"patient", "doctor"}
          /\ ~login.request.roleEdited => login.request.role = "patient"
    /\ login.request.kind = "signIn" => login.request.role = "none"
    /\ SubmitDisabled <=> login.request.pending

\* a sign-up asked for the role doctor, the call threw, and the button is enabled again
C30_Witness ==
    /\ login.request.kind = "signUp" /\ login.request.role = "doctor"
    /\ ~login.request.pending
    /\ login.error = "An unexpected error occurred"
    /\ ~SubmitDisabled

====
